---------------------------- MODULE Spec2Model ----------------------------
(* A model of src/hash_table.c: a chained hash table from strings to      *)
(* strings with table doubling and halving, over a universal hash.        *)
(*                                                                        *)
(* Strings are sequences of character codes.  The C heap is three typed   *)
(* pools (nodes, strings, bucket arrays); a pointer is an index into its  *)
(* pool, 0 is NULL.  malloc does not clear memory: a bucket slot nobody   *)
(* has written holds UNINIT, and reading it yields either NULL or a wild  *)
(* pointer (JUNK); dereferencing a wild or NULL pointer ends the process  *)
(* (status "crashed").  exit(1) gives status "exited".                    *)
(*                                                                        *)
(* malloc may return any free block, and the program never compares or    *)
(* orders addresses.  The model's allocator returns the first free cell   *)
(* at or after a place that depends on what the block is for (the node of *)
(* a key, the strings of a node, a search result), so that tables built   *)
(* by different histories of calls do not differ in their addresses only. *)
EXTENDS Integers, Sequences, FiniteSets, TLC

\* ------------------------------------------------------------------------
\* Bounds of the model
\* ------------------------------------------------------------------------

\* number of distinct keys the client uses: Key(1) .. Key(NumKeys)
NumKeys == 18

\* the client inserts new keys in the order Key(1), Key(2), ... and removes
\* the newest stored key or one of the MaxDepth keys stored before it
MaxDepth == 1

\* ------------------------------------------------------------------------
\* 64-bit integers (int64_t): eight limbs of eight bits, least significant
\* first, two's complement.  TLC's own integers are 32 bits wide.
\* ------------------------------------------------------------------------

Limbs == 8

Base == 256

\* the int64_t holding the natural number x < 2^31
W64(x) == [i \in 1..Limbs |-> IF i <= 4 THEN (x \div (Base ^ (i - 1))) % Base ELSE 0]

RECURSIVE Carry(_, _, _)
\* propagate carries through the column sums cols from limb i on, dropping
\* what overflows the eighth limb (arithmetic modulo 2^64)
Carry(cols, i, c) ==
  IF i > Limbs THEN <<>>
  ELSE LET t == cols[i] + c IN <<t % Base>> \o Carry(cols, i + 1, t \div Base)

\* x + y modulo 2^64
Add64(x, y) == Carry([i \in 1..Limbs |-> x[i] + y[i]], 1, 0)

RECURSIVE ColSum(_, _, _, _)
\* the sum of x[i] * y[k + 1 - i] for i = from .. k
ColSum(x, y, k, from) ==
  IF from > k THEN 0 ELSE x[from] * y[k + 1 - from] + ColSum(x, y, k, from + 1)

\* x * y modulo 2^64
Mul64(x, y) == Carry([k \in 1..Limbs |-> ColSum(x, y, k, 1)], 1, 0)

\* -y modulo 2^64
Neg64(y) == Add64([i \in 1..Limbs |-> Base - 1 - y[i]], W64(1))

\* x - y modulo 2^64
Sub64(x, y) == Add64(x, Neg64(y))

\* the sign bit of an int64_t
IsNeg64(x) == x[Limbs] >= Base \div 2

RECURSIVE LessFrom(_, _, _)
\* x < y as unsigned numbers, comparing limbs i, i-1, .. 1
LessFrom(x, y, i) ==
  IF i = 0 THEN FALSE
  ELSE IF x[i] # y[i] THEN x[i] < y[i]
  ELSE LessFrom(x, y, i - 1)

\* x < y for non-negative int64_t x, y
Less64(x, y) == LessFrom(x, y, Limbs)

\* whether the non-negative int64_t y fits TLC's arithmetic as a divisor
IsSmall64(y) == \A i \in 4..Limbs : y[i] = 0

\* the natural number held by a small int64_t
Small64(y) == y[1] + Base * y[2] + Base * Base * y[3]

RECURSIVE RemSmall(_, _, _, _)
\* x % d for non-negative x and a small d > 0, folding the limbs from the top
RemSmall(x, d, i, r) ==
  IF i = 0 THEN r ELSE RemSmall(x, d, i - 1, (r * Base + x[i]) % d)

RECURSIVE RemBig(_, _)
\* x % y for non-negative x and a y that is not small: subtract while x >= y
RemBig(x, y) == IF Less64(x, y) THEN x ELSE RemBig(Sub64(x, y), y)

\* the C operator x % y on non-negative x and positive y
Rem64(x, y) ==
  IF IsSmall64(y) THEN W64(RemSmall(x, Small64(y), Limbs, 0)) ELSE RemBig(x, y)

\* ------------------------------------------------------------------------
\* The hash function (hash_table.c lines 8-53)
\* ------------------------------------------------------------------------

MIN_TABLE_SIZE == 16

\* p = 2305843009213693951 = 2^61 - 1, set by init_hash
P61 == [i \in 1..Limbs |-> IF i < Limbs THEN Base - 1 ELSE 31]

\* mod without the loop of lines 19-20: the C operator % alone, whose result
\* has the sign of x
mod_truncating(x, y) ==
  IF IsNeg64(x) THEN Neg64(Rem64(Neg64(x), y)) ELSE Rem64(x, y)

RECURSIVE mod(_, _)
\* static int64_t mod(int64_t x, int64_t y)
mod(x, y) == IF IsNeg64(x) THEN mod(Add64(x, y), y) ELSE Rem64(x, y)

RECURSIVE prehashFrom(_, _, _)
\* the loop of prehash: hash = ((hash << 5) + hash) + c over str[i..]
\* (h always has Limbs limbs: the test on it makes each round compute the
\* running hash before the next round starts)
prehashFrom(str, i, h) ==
  IF i > Len(str) \/ Len(h) # Limbs THEN h
  ELSE prehashFrom(str, i + 1, Add64(Add64(Mul64(h, W64(32)), h), W64(str[i])))

\* static int64_t prehash(const char *str)
prehash(str) == prehashFrom(str, 1, W64(5381))

\* mod(a * k + b, p) of line 52, for the parameters a, b as naturals
hashModP(pa, pb, str) == mod(Add64(Mul64(W64(pa), prehash(str)), W64(pb)), P61)


\* ------------------------------------------------------------------------
\* Memory
\* ------------------------------------------------------------------------

\* the null pointer
NULL == 0

\* a wild pointer: a non-null value read from memory nobody initialised
JUNK == -1

\* the content of a bucket slot between malloc and the first store to it
UNINIT == -2

\* sizes of the pools: a node for every key; for every node a key, a value
\* and the value replacing it; one search result held by the client; the
\* two bucket arrays live during a resize
MaxNodes == NumKeys

MaxStrs == 3 * MaxNodes + 1

MaxArrs == 2

\* where the allocator looks first for the key of node nd, for its value,
\* and for a search result
KeyCell(nd) == 3 * nd - 2

ValueCell(nd) == 3 * nd - 1

ResultCell == 3 * MaxNodes + 1

FreeNode == [live |-> FALSE, next |-> NULL, prev |-> NULL, key |-> NULL, value |-> NULL]

FreeStr == [live |-> FALSE, s |-> <<>>]

FreeArr == [live |-> FALSE, slots |-> <<>>]

\* The state of the process while one call runs: the table (m, n, table),
\* the heap (nodes, strs, arrs), status, the value being returned (r), and
\* the environment's choices for this call: the junkAt-th read of an
\* uninitialised slot yields a wild pointer (0: none does), the failAt-th
\* allocation returns NULL (0: none does); ur and al count both.
Running(s) == s.status = "running"

\* a dereference of NULL or of a wild pointer: the process dies
Crash(s) == [s EXCEPT !.status = "crashed"]

\* exit(1)
Exit(s) == [s EXCEPT !.status = "exited"]

\* the lowest free cell of a pool, NULL when the pool is exhausted
LowestFree(pool, max) ==
  IF \E i \in 1..max : ~pool[i].live
  THEN CHOOSE i \in 1..max : ~pool[i].live /\ \A j \in 1..(i - 1) : pool[j].live
  ELSE NULL

\* the first free cell of a pool at or after hint, else the lowest free cell
FreeFrom(pool, max, hint) ==
  IF \E i \in hint..max : ~pool[i].live
  THEN CHOOSE i \in hint..max : ~pool[i].live /\ \A j \in hint..(i - 1) : pool[j].live
  ELSE LowestFree(pool, max)

\* whether the allocation call s is about to make fails
AllocFails(s) == s.al + 1 = s.failAt

\* malloc(sizeof(node_t)): r is the new node, its fields not yet set
malloc_node(s) ==
  LET i == LowestFree(s.nodes, MaxNodes) IN
  IF AllocFails(s) \/ i = NULL THEN [s EXCEPT !.al = @ + 1, !.r = NULL]
  ELSE [s EXCEPT !.al = @ + 1, !.r = i,
                 !.nodes[i] = [live |-> TRUE, next |-> UNINIT, prev |-> UNINIT,
                               key |-> UNINIT, value |-> UNINIT]]

\* malloc(len * sizeof(node_t *)): r is the new array, no slot cleared
malloc_arr(s, len) ==
  LET i == LowestFree(s.arrs, MaxArrs) IN
  IF AllocFails(s) \/ i = NULL THEN [s EXCEPT !.al = @ + 1, !.r = NULL]
  ELSE [s EXCEPT !.al = @ + 1, !.r = i,
                 !.arrs[i] = [live |-> TRUE, slots |-> [x \in 1..len |-> UNINIT]]]

\* strdup(str): r is a new string holding a copy of str
strdup(s, str, hint) ==
  LET i == FreeFrom(s.strs, MaxStrs, hint) IN
  IF AllocFails(s) \/ i = NULL THEN [s EXCEPT !.al = @ + 1, !.r = NULL]
  ELSE [s EXCEPT !.al = @ + 1, !.r = i, !.strs[i] = [live |-> TRUE, s |-> str]]

\* free(p) of a string; free(NULL) does nothing
free_str(s, p) == IF p = NULL THEN s ELSE [s EXCEPT !.strs[p] = FreeStr]

\* free(p) of a bucket array; free(NULL) does nothing
free_arr(s, p) == IF p = NULL THEN s ELSE [s EXCEPT !.arrs[p] = FreeArr]

\* the read arr[i]: r is the slot's content; an uninitialised slot reads
\* as NULL or as a wild pointer, and reading through a null arr crashes
ReadSlot(s, arr, i) ==
  IF arr = NULL THEN Crash(s)
  ELSE LET v == s.arrs[arr].slots[i + 1] IN
       IF v # UNINIT THEN [s EXCEPT !.r = v]
       ELSE [s EXCEPT !.ur = @ + 1,
                      !.r = IF s.ur + 1 = s.junkAt THEN JUNK ELSE NULL]

\* the store arr[i] = p
WriteSlot(s, arr, i, p) ==
  IF arr = NULL THEN Crash(s) ELSE [s EXCEPT !.arrs[arr].slots[i + 1] = p]

\* ------------------------------------------------------------------------
\* Program state
\* ------------------------------------------------------------------------

VARIABLES
  a, b,      \* the hash parameters drawn by init_hash
  m, n,      \* hasht_t: table size and number of elements
  table,     \* hasht_t: the bucket array (a pointer)
  nodes,     \* heap: the node_t objects
  strs,      \* heap: the strings (keys, values, search results)
  arrs,      \* heap: the bucket arrays
  status,    \* "running", "exited" (exit(1)) or "crashed"
  res,       \* the pointer the last hash_search returned, until released
  last       \* the last call: its name, arguments and what it started from

vars == <<a, b, m, n, table, nodes, strs, arrs, status, res, last>>

\* the keys "a", "b", ... and the values "1", "2" as character codes
Key(i) == <<96 + i>>

KeyIds == 1..NumKeys

Keys == {Key(i) : i \in KeyIds}

Values == {<<49>>, <<50>>}

\* the draws of random() in init_hash that the model follows: a = 1, b = 0
\* spreads consecutive keys over consecutive slots, a = 0 puts every key
\* in one chain
Seeds == {<<1, 0>>, <<0, 7>>}

\* further values init_hash can draw: both zero, the first two numbers of
\* an unseeded random(), and the largest number random() returns
HashSeeds == {<<0, 0>>, <<1804289383, 846930886>>, <<2147483647, 2147483647>>}

\* mod(a * prehash(str) + b, p) for every seed and key, computed once
hashModPTable ==
  [ab \in Seeds \cup HashSeeds |-> [str \in Keys |-> hashModP(ab[1], ab[2], str)]]

\* static int hash(const char *str, int m)
hash(str, mm) == Small64(mod(hashModPTable[<<a, b>>][str], W64(mm)))

\* hash(str, mm) for any string, as the int64_t that line 52 computes
hash64(str, mm) == mod(hashModP(a, b, str), W64(mm))

\* ------------------------------------------------------------------------
\* The table operations (hash_table.c lines 59-327).  Each operator maps
\* the process state before a piece of code to the state after it; a
\* function's value is left in r.
\* ------------------------------------------------------------------------

\* lines 70 and 79: n->key = keycpy, n->value = valcpy; return n
set_key(s, nd) == [s EXCEPT !.nodes[nd].key = s.r]

set_value(s, nd) == [s EXCEPT !.nodes[nd].value = s.r, !.r = nd]

\* lines 63-70: keycpy = strdup(key); the check tests key, never NULL
copy_key(s, nd, key) == set_key(strdup(s, key, KeyCell(nd)), nd)

\* lines 72-81: valcpy = strdup(value); the check tests key again
copy_value(s, nd, value) == set_value(strdup(s, value, ValueCell(nd)), nd)

\* lines 61-81 of new_hash_node, r the node malloc returned (not checked)
init_node(s, key, value) ==
  IF s.r = NULL THEN Crash(s)   \* n->next = ... through a null n
  ELSE copy_value(
         copy_key([s EXCEPT !.nodes[s.r].next = NULL, !.nodes[s.r].prev = NULL],
                  s.r, key),
         s.r, value)

\* node_t *new_hash_node(const char *key, const char *value)
new_hash_node(s, key, value) == init_node(malloc_node(s), key, value)

\* void free_hash_node(node_t *n)
free_hash_node(s, nd) ==
  IF nd = NULL THEN s
  ELSE [free_str(free_str(s, s.nodes[nd].key), s.nodes[nd].value)
          EXCEPT !.nodes[nd] = FreeNode]

RECURSIVE search_list(_, _, _)
\* the while loop of hash_search_node from node nd on: r is the node
\* holding key, or NULL
search_list(s, nd, key) ==
  IF ~Running(s) THEN s
  ELSE IF nd = NULL THEN [s EXCEPT !.r = NULL]
  ELSE IF nd = JUNK THEN Crash(s)                \* n->key through a wild n
  ELSE IF s.nodes[nd].key = NULL THEN Crash(s)   \* strcmp(NULL, key)
  ELSE IF s.strs[s.nodes[nd].key].s = key THEN [s EXCEPT !.r = nd]
  ELSE search_list(s, s.nodes[nd].next, key)

\* lines 144-153, r the head read at line 141
search_head(s, key) == search_list(s, s.r, key)

\* static node_t *hash_search_node(hasht_t *ht, const char *key)
hash_search_node(s, key) ==
  IF s.m = 0 THEN [s EXCEPT !.r = NULL]
  ELSE search_head(ReadSlot(s, s.table, hash(key, s.m)), key)

\* line 162: return (n == NULL) ? 0 : 1
found_flag(s) ==
  IF Running(s) THEN [s EXCEPT !.r = IF s.r = NULL THEN 0 ELSE 1] ELSE s

\* int hash_contains(hasht_t *ht, const char *key)
hash_contains(s, key) == found_flag(hash_search_node(s, key))

\* lines 177-180: if (!s) { perror; exit(1); }
check_dup(s) == IF s.r = NULL THEN Exit(s) ELSE s

\* copy_found without the strdup of line 176: the caller is handed the
\* string the node owns
copy_found_alias(s) ==
  IF ~Running(s) \/ s.r = NULL THEN s
  ELSE [s EXCEPT !.r = s.nodes[s.r].value]

\* lines 174-183 of hash_search, r the node found
copy_found(s) ==
  IF ~Running(s) \/ s.r = NULL THEN s
  ELSE IF s.nodes[s.r].value = NULL THEN Crash(s)   \* strdup(NULL)
  ELSE check_dup(strdup(s, s.strs[s.nodes[s.r].value].s, ResultCell))

\* char *hash_search(hasht_t *ht, const char *key)
hash_search(s, key) == copy_found(hash_search_node(s, key))

\* lines 206-210, r the content of t[slot]: put node nd at the head of
\* the list in slot of the new array t
link_front(s, t, nd, slot) ==
  IF ~Running(s) THEN s
  ELSE IF s.r = JUNK THEN Crash(s)               \* t[slot]->prev = n
  ELSE WriteSlot(IF s.r = NULL THEN s
                 ELSE [s EXCEPT !.nodes[s.r].prev = nd, !.nodes[nd].next = s.r],
                 t, slot, nd)

\* lines 205-210: n->next = n->prev = NULL, then the link into t[slot]
relink(s, t, nd, slot) ==
  link_front(ReadSlot([s EXCEPT !.nodes[nd].next = NULL, !.nodes[nd].prev = NULL],
                      t, slot),
             t, nd, slot)

RECURSIVE rehash_list(_, _, _, _)
\* the inner while loop of resize_hash_table (lines 199-214) from node nd on
rehash_list(s, t, newm, nd) ==
  IF ~Running(s) \/ nd = NULL THEN s
  ELSE IF nd = JUNK THEN Crash(s)                \* n->next through a wild n
  ELSE IF s.nodes[nd].key = NULL THEN Crash(s)   \* prehash(NULL)
  ELSE rehash_list(relink(s, t, nd, hash(s.strs[s.nodes[nd].key].s, newm)),
                   t, newm, s.nodes[nd].next)

\* lines 197-214, r the content of the old slot
rehash_chain(s, t, newm) == rehash_list(s, t, newm, s.r)

RECURSIVE rehash_slots(_, _, _, _)
\* the for loop of resize_hash_table (lines 196-215) from slot l on
rehash_slots(s, t, newm, l) ==
  IF ~Running(s) \/ l >= s.m THEN s
  ELSE rehash_slots(rehash_chain(ReadSlot(s, s.table, l), t, newm), t, newm, l + 1)

\* lines 218-220: free(ht->table); ht->table = t; ht->m = newm
install_table(s, t, newm) ==
  IF Running(s) THEN [free_arr(s, s.table) EXCEPT !.table = t, !.m = newm] ELSE s

\* lines 195-220 of resize_hash_table, r the array malloc returned (not
\* checked, not cleared)
rehash_all(s, newm) == install_table(rehash_slots(s, s.r, newm, 0), s.r, newm)

\* static void resize_hash_table(hasht_t *ht, int newm)
resize_hash_table(s, newm) == rehash_all(malloc_arr(s, newm), newm)

\* line 231: ht->table = malloc(...), not checked, not cleared
set_table(s) == [s EXCEPT !.table = s.r]

\* static void grow_hash_table(hasht_t *ht)
grow_hash_table(s) ==
  IF s.m = 0
  THEN set_table(malloc_arr([s EXCEPT !.m = MIN_TABLE_SIZE], MIN_TABLE_SIZE))
  ELSE resize_hash_table(s, 2 * s.m)

\* lines 276-280, r the head read at line 275: link node nd before it
link_head(s, nd, slot) ==
  IF ~Running(s) THEN s
  ELSE IF s.r = NULL THEN WriteSlot(s, s.table, slot, nd)
  ELSE IF s.r = JUNK
  THEN Crash([s EXCEPT !.nodes[nd].next = s.r])  \* head->prev = n
  ELSE WriteSlot([s EXCEPT !.nodes[nd].next = s.r, !.nodes[s.r].prev = nd],
                 s.table, slot, nd)

\* lines 274-280, nd the new node
place_node(s, nd, slot) == link_head(ReadSlot(s, s.table, slot), nd, slot)

\* add_node without the ht->n++ of line 268
add_node_uncounted(s, key, value) ==
  IF Running(s) THEN new_hash_node(s, key, value) ELSE s

\* lines 268-280: ht->n++, the new node, its place at the head of its slot
add_node(s, key, value) ==
  IF Running(s) THEN new_hash_node([s EXCEPT !.n = @ + 1], key, value) ELSE s

\* place_new with the slot computed for the first size of the table
\* instead of the current one
place_new_first_size(s, key) ==
  IF Running(s) THEN place_node(s, s.r, hash(key, MIN_TABLE_SIZE)) ELSE s

\* lines 273-280, r the new node
place_new(s, key) ==
  IF Running(s) THEN place_node(s, s.r, hash(key, s.m)) ELSE s

\* lines 266-267: if (ht->n == ht->m) grow_hash_table(ht)
grow_if_full(s) == IF s.n = s.m THEN grow_hash_table(s) ELSE s

\* lines 265-280 of hash_insert: the insertion of a key that is not there
insert_new(s, key, value) == place_new(add_node(grow_if_full(s), key, value), key)

\* lines 255-262, r the copy of the value: replace the value of node found
replace_value(s, found) ==
  IF s.r = NULL THEN Exit(s)
  ELSE [free_str(s, s.nodes[found].value) EXCEPT !.nodes[found].value = s.r]

\* insert_found without the return of line 262: after the value is
\* replaced the key is inserted once more
insert_found_fallthrough(s, key, value) ==
  IF ~Running(s) THEN s
  ELSE IF s.r # NULL
  THEN insert_new(replace_value(strdup(s, value, ValueCell(s.r)), s.r), key, value)
  ELSE insert_new(s, key, value)

\* lines 252-280 of hash_insert, r the node hash_search_node found
insert_found(s, key, value) ==
  IF ~Running(s) THEN s
  ELSE IF s.r # NULL THEN replace_value(strdup(s, value, ValueCell(s.r)), s.r)
  ELSE insert_new(s, key, value)

\* void hash_insert(hasht_t *ht, const char *key, const char *value)
hash_insert(s, key, value) == insert_found(hash_search_node(s, key), key, value)

\* shrink_hash_table with the test of line 288 against MIN_TABLE_SIZE
\* instead of twice that
shrink_below_floor(s) ==
  IF s.m < MIN_TABLE_SIZE THEN s ELSE resize_hash_table(s, s.m \div 2)

\* static void shrink_hash_table(hasht_t *ht)
shrink_hash_table(s) ==
  IF s.m < MIN_TABLE_SIZE * 2 THEN s ELSE resize_hash_table(s, s.m \div 2)

\* lines 317-323: take node nd, which holds key, out of its list
unlink(s, nd, nx, pv, key) ==
  IF pv # NULL
  THEN [s EXCEPT !.nodes[pv].next = nx,
                 !.nodes[nx].prev = IF nx # NULL THEN pv ELSE @]
  ELSE WriteSlot(IF nx # NULL THEN [s EXCEPT !.nodes[nx].prev = pv] ELSE s,
                 s.table, hash(key, s.m), nx)

\* lines 313-326 of hash_remove: ht->n--, unlink node nd and free it
unlink_node(s, nd, key) ==
  IF nd = NULL THEN Crash([s EXCEPT !.n = @ - 1])   \* n->next through a null n
  ELSE free_hash_node(
         unlink([s EXCEPT !.n = @ - 1], nd, s.nodes[nd].next, s.nodes[nd].prev, key),
         nd)

\* lines 313-326, r the node to remove
unlink_found(s, key) == IF Running(s) THEN unlink_node(s, s.r, key) ELSE s

\* line 311: n = hash_search_node(ht, key)
search_again(s, key) == IF Running(s) THEN hash_search_node(s, key) ELSE s

\* lines 305-326 of hash_remove, r the node hash_search_node found
remove_found(s, key) ==
  IF ~Running(s) \/ s.r = NULL THEN s
  ELSE IF s.n \div 4 <= s.m
  THEN unlink_found(search_again(shrink_hash_table(s), key), key)
  ELSE unlink_node(s, s.r, key)

\* void hash_remove(hasht_t *ht, const char *key)
hash_remove(s, key) == remove_found(hash_search_node(s, key), key)

\* ------------------------------------------------------------------------
\* The client: calls of the API, one action per call
\* ------------------------------------------------------------------------

\* the process state at the start of a call, with the environment's choices
Start(j, f) ==
  [m |-> m, n |-> n, table |-> table, nodes |-> nodes, strs |-> strs,
   arrs |-> arrs, status |-> status, r |-> NULL, ur |-> 0, al |-> 0,
   junkAt |-> j, failAt |-> f]

\* the process state when the call returns; a process that has died leaves
\* no memory behind, the variables keep what they held before the call
Commit(s) ==
  /\ status' = s.status
  /\ IF Running(s)
     THEN /\ m' = s.m
          /\ n' = s.n
          /\ table' = s.table
          /\ nodes' = s.nodes
          /\ strs' = s.strs
          /\ arrs' = s.arrs
     ELSE UNCHANGED <<m, n, table, nodes, strs, arrs>>

\* whether some live node holds Key(i)
Stored(i) ==
  \E x \in 1..MaxNodes :
    nodes[x].live /\ nodes[x].key # NULL /\ strs[nodes[x].key].s = Key(i)

\* the ids of the keys held by live nodes
StoredIds == {i \in KeyIds : Stored(i)}

\* the string the node holding Key(i) has for its value, <<>> for none
ValueOf(i) ==
  LET x == CHOOSE y \in 1..MaxNodes :
             nodes[y].live /\ nodes[y].key # NULL /\ strs[nodes[y].key].s = Key(i)
  IN IF nodes[x].value = NULL THEN <<>> ELSE strs[nodes[x].value].s

\* the table's contents: the value of each key stored
Contents == [i \in StoredIds |-> ValueOf(i)]

\* the highest id of S, 0 when S is empty
Top(S) == IF S = {} THEN 0 ELSE CHOOSE i \in S : \A k \in S : k <= i

\* the ids missing below the highest id of S
Holes(S) == {i \in 1..Top(S) : i \notin S}

\* what last records of a call: its name and arguments, the m, n and
\* contents it started from, whether the key was stored, the value
\* returned, whether a slot was read as a wild pointer and whether an
\* allocation failed
Call(op, i, v, s) ==
  [op |-> op, key |-> i, value |-> v, m0 |-> m, n0 |-> n, had |-> Stored(i),
   before |-> Contents,
   ret |-> IF Running(s) THEN s.r ELSE NULL,
   junk |-> s.junkAt # 0 /\ s.ur >= s.junkAt,
   oom |-> s.failAt # 0 /\ s.al >= s.failAt]

\* the keys the client overwrites and searches, and the only keys it passes
\* to hash_insert and hash_remove while it holds a search result
HotIds == {1}

\* the keys the client passes to hash_contains, and to hash_remove when
\* they are not stored
ProbeIds == HotIds \cup {NumKeys}

\* the value a key outside HotIds is inserted with
DefaultValue == <<49>>

\* the choices of the allocation that fails in a call whose run without a
\* failure is clean: none, or (when memory may run out) any one it makes
FailChoices(oom, clean) == IF oom THEN 0..clean.al ELSE {0}

\* the table new_hash_table returns, after init_hash drew one of seeds
InitWith(seeds) ==
  /\ \E ab \in seeds : a = ab[1] /\ b = ab[2]
  /\ m = 0
  /\ n = 0
  /\ table = NULL
  /\ nodes = [x \in 1..MaxNodes |-> FreeNode]
  /\ strs = [x \in 1..MaxStrs |-> FreeStr]
  /\ arrs = [x \in 1..MaxArrs |-> FreeArr]
  /\ status = "running"
  /\ res = NULL
  /\ last = [op |-> "new", key |-> 0, value |-> <<>>, m0 |-> 0, n0 |-> 0,
             before |-> <<>>, had |-> FALSE, ret |-> NULL, junk |-> FALSE, oom |-> FALSE]

Init == InitWith(Seeds)

\* hash_insert(ht, Key(i), v)
Insert(i, v, oom) ==
  /\ status = "running"
  /\ \E f \in FailChoices(oom, hash_insert(Start(0, 0), Key(i), v)) :
       \E j \in 0..hash_insert(Start(0, f), Key(i), v).ur :
         LET s == hash_insert(Start(j, f), Key(i), v) IN
         /\ Commit(s)
         /\ last' = Call("insert", i, v, s)
  /\ UNCHANGED <<a, b, res>>

\* hash_remove(ht, Key(i))
Remove(i, oom) ==
  /\ status = "running"
  /\ \E f \in FailChoices(oom, hash_remove(Start(0, 0), Key(i))) :
       \E j \in 0..hash_remove(Start(0, f), Key(i)).ur :
         LET s == hash_remove(Start(j, f), Key(i)) IN
         /\ Commit(s)
         /\ last' = Call("remove", i, <<>>, s)
  /\ UNCHANGED <<a, b, res>>

\* res = hash_search(ht, Key(i)), the earlier result released
Search(i, oom) ==
  /\ status = "running"
  /\ res = NULL
  /\ \E f \in FailChoices(oom, hash_search(Start(0, 0), Key(i))) :
       \E j \in 0..hash_search(Start(0, f), Key(i)).ur :
         LET s == hash_search(Start(j, f), Key(i)) IN
         /\ Commit(s)
         /\ res' = IF Running(s) THEN s.r ELSE NULL
         /\ last' = Call("search", i, <<>>, s)
  /\ UNCHANGED <<a, b>>

\* hash_contains(ht, Key(i))
Contains(i) ==
  /\ status = "running"
  /\ \E j \in 0..hash_contains(Start(0, 0), Key(i)).ur :
       LET s == hash_contains(Start(j, 0), Key(i)) IN
       /\ Commit(s)
       /\ last' = Call("contains", i, <<>>, s)
  /\ UNCHANGED <<a, b, res>>

\* what the client writes over a search result: "X"
Mark == <<88>>

\* the client overwrites the string hash_search returned
Scribble ==
  /\ status = "running"
  /\ res # NULL
  /\ strs[res].s # Mark
  /\ strs' = [strs EXCEPT ![res].s = Mark]
  /\ last' = [op |-> "scribble", key |-> 0, value |-> Mark, m0 |-> m, n0 |-> n,
              before |-> Contents, had |-> FALSE, ret |-> NULL, junk |-> FALSE, oom |-> FALSE]
  /\ UNCHANGED <<a, b, m, n, table, nodes, arrs, status, res>>

\* the client frees the string hash_search returned
Release ==
  /\ status = "running"
  /\ res # NULL
  /\ strs' = [strs EXCEPT ![res] = FreeStr]
  /\ res' = NULL
  /\ last' = [op |-> "release", key |-> 0, value |-> <<>>, m0 |-> m, n0 |-> n,
              before |-> Contents, had |-> FALSE, ret |-> NULL, junk |-> FALSE, oom |-> FALSE]
  /\ UNCHANGED <<a, b, m, n, table, nodes, arrs, status>>

\* The keys the client passes to hash_insert: a stored key of HotIds, or,
\* when no key is missing below the newest, the next new key; only keys of
\* HotIds while it holds a search result
Insertable ==
  LET S == StoredIds
      new == IF Holes(S) = {} /\ Top(S) < NumKeys THEN {Top(S) + 1} ELSE {}
  IN IF res = NULL THEN (S \cap HotIds) \cup new ELSE (S \cup new) \cap HotIds

\* the values the client stores under Key(i)
ValuesFor(i) == IF i \in HotIds THEN Values ELSE {DefaultValue}

\* The keys the client passes to hash_remove: a stored key that is the
\* newest or among the MaxDepth before it, while no other key is missing,
\* or a key of ProbeIds that is not stored; only keys of HotIds while it
\* holds a search result
Removable ==
  LET S == StoredIds
      shallow == {i \in S : LET R == S \ {i} IN
                            \A h \in Holes(R) : Holes(R) = {h} /\ h + MaxDepth >= Top(R)}
  IN IF res = NULL THEN shallow \cup (ProbeIds \ S) ELSE shallow \cap HotIds

Next ==
  \/ \E i \in Insertable : \E v \in ValuesFor(i) : Insert(i, v, FALSE)
  \/ \E i \in Removable : Remove(i, FALSE)
  \/ \E i \in HotIds : Search(i, FALSE)
  \/ \E i \in ProbeIds : Contains(i)
  \/ Scribble
  \/ Release

\* memory never runs out
Spec == Init /\ [][Next]_vars

\* the client stops at the first call in which an allocation failed
NextOOM ==
  /\ ~last.oom
  /\ \/ \E i \in Insertable : \E v \in ValuesFor(i) : Insert(i, v, TRUE)
     \/ \E i \in Removable : Remove(i, TRUE)
     \/ \E i \in HotIds : Search(i, TRUE)
     \/ \E i \in ProbeIds : Contains(i)
     \/ Scribble
     \/ Release

\* an allocation may fail
SpecOOM == Init /\ [][NextOOM]_vars

\* the client only inserts
NextInsertOnly == \E i \in Insertable : \E v \in ValuesFor(i) : Insert(i, v, FALSE)

\* a fresh table that sees hash_insert calls only; memory never runs out
SpecInsertOnly == Init /\ [][NextInsertOnly]_vars

RECURSIVE free_list_nodes(_, _)
\* static void free_list_nodes(node_t *head), from node nd on; a node or a
\* string that was freed before is not freed again without a fault
free_list_nodes(s, nd) ==
  IF ~Running(s) \/ nd = NULL THEN s
  ELSE IF nd = JUNK THEN Crash(s)                \* n->next through a wild n
  ELSE IF ~s.nodes[nd].live THEN Crash(s)        \* n->next of a freed node
  ELSE IF \E c \in {s.nodes[nd].key, s.nodes[nd].value} \ {NULL} : ~s.strs[c].live
  THEN Crash(s)                                  \* free of a freed string
  ELSE free_list_nodes(free_hash_node(s, nd), s.nodes[nd].next)

\* line 124, r the content of ht->table[l]
free_chain(s) == free_list_nodes(s, s.r)

RECURSIVE free_slots(_, _)
\* the for loop of free_hash_table (lines 123-124) from slot l on
free_slots(s, l) ==
  IF ~Running(s) \/ l >= s.m THEN s
  ELSE free_slots(free_chain(ReadSlot(s, s.table, l)), l + 1)

\* lines 126-127: free(ht->table); free(ht)
free_table(s) ==
  IF Running(s) THEN [free_arr(s, s.table) EXCEPT !.status = "freed"] ELSE s

\* void free_hash_table(hasht_t *ht)
free_hash_table(s) == free_table(free_slots(s, 0))

\* free_hash_table(ht); the table is not used afterwards
Destroy ==
  /\ status = "running"
  /\ \E j \in 0..free_hash_table(Start(0, 0)).ur :
       LET s == free_hash_table(Start(j, 0)) IN
       /\ status' = s.status
       /\ IF s.status = "freed"
          THEN nodes' = s.nodes /\ strs' = s.strs /\ arrs' = s.arrs
          ELSE UNCHANGED <<nodes, strs, arrs>>
       /\ last' = Call("free", 0, <<>>, s)
  /\ UNCHANGED <<a, b, m, n, table, res>>

\* the client inserts new keys, removes stored ones and at last frees the
\* table
NextDestroy ==
  \/ \E i \in Insertable : Insert(i, DefaultValue, FALSE)
  \/ \E i \in Removable \cap StoredIds : Remove(i, FALSE)
  \/ Destroy

\* a table that is freed in the end; memory never runs out
SpecDestroy == Init /\ [][NextDestroy]_vars

\* the string of k characters c
Rep(c, k) == [i \in 1..k |-> c]

\* the strings hash is called with directly: the empty string, a key, and
\* strings long enough for prehash and a * k + b to leave the int64_t range
ProbeStrs ==
  {<<>>, Key(1), Rep(122, 11), Rep(122, 12), Rep(122, 13), Rep(97, 14), Rep(126, 20)}

\* the sizes hash is called with directly
ProbeSizes == {1, MIN_TABLE_SIZE, 2 * MIN_TABLE_SIZE, 1048576}

\* hash(str, mm) called on its own, before the table is used
HashProbe(str, mm) ==
  /\ status = "running"
  /\ m = 0
  /\ last' = [op |-> "hash", key |-> 0, value |-> str, m0 |-> mm, n0 |-> n,
              before |-> Contents, had |-> FALSE, ret |-> hash64(str, mm),
              junk |-> FALSE, oom |-> FALSE]
  /\ UNCHANGED <<a, b, m, n, table, nodes, strs, arrs, status, res>>

\* the client inserts new keys, removes stored ones and calls hash
NextHash ==
  \/ \E str \in ProbeStrs : \E mm \in ProbeSizes : HashProbe(str, mm)
  \/ \E i \in Insertable : Insert(i, DefaultValue, FALSE)
  \/ \E i \in Removable \cap StoredIds : Remove(i, FALSE)

\* init_hash may draw any of the seeds; memory never runs out
SpecHash == InitWith(Seeds \cup HashSeeds) /\ [][NextHash]_vars

\* ------------------------------------------------------------------------
\* Properties
\* ------------------------------------------------------------------------

\* hash_search(ht, Key(i)) called in the current state, the jth read of a
\* never written slot yielding a wild pointer (j = 0: every such read
\* yields NULL)
SearchRun(i, j) == hash_search(Start(j, 0), Key(i))

\* hash_contains(ht, Key(i)) called in the current state
ContainsRun(i, j) == hash_contains(Start(j, 0), Key(i))

\* however the reads of never written slots go, hash_search(ht, Key(i))
\* returns a string equal to v
Returns(i, v) ==
  \A j \in 0..SearchRun(i, 0).ur :
    /\ Running(SearchRun(i, j))
    /\ SearchRun(i, j).r # NULL
    /\ SearchRun(i, j).strs[SearchRun(i, j).r].s = v

\* however the reads of never written slots go, hash_search(ht, Key(i))
\* returns NULL and hash_contains(ht, Key(i)) returns 0
NotFound(i) ==
  /\ \A j \in 0..SearchRun(i, 0).ur :
       Running(SearchRun(i, j)) /\ SearchRun(i, j).r = NULL
  /\ \A j \in 0..ContainsRun(i, 0).ur :
       Running(ContainsRun(i, j)) /\ ContainsRun(i, j).r = 0

\* the table's memory: its fields, bucket arrays and nodes
TableMemory == <<m, n, table, nodes, arrs>>

\* the strings the live nodes own
OwnedCells ==
  {nodes[x].key : x \in {y \in 1..MaxNodes : nodes[y].live}}
    \cup {nodes[x].value : x \in {y \in 1..MaxNodes : nodes[y].live}}

\* C1 (round trip): after hash_insert(ht, k, v) returns, from whatever
\* state it was called in and whether or not it grew the table, the process
\* is alive and hash_search(ht, k) returns a string equal to v.
C1_RoundTrip ==
  last.op = "insert" => status = "running" /\ Returns(last.key, last.value)

\* C2 (upsert): hash_insert(ht, k, v2) on a table that holds k leaves n and
\* m as they were, also when n = m, and hash_search(ht, k) then returns v2.
C2_Upsert ==
  (last.op = "insert" /\ last.had) =>
    /\ status = "running"
    /\ n = last.n0
    /\ m = last.m0
    /\ Returns(last.key, last.value)

\* a stored key has been given the other value in a table with n = m = 16
C2_UpsertWhenFull ==
  /\ status = "running"
  /\ last.op = "insert"
  /\ last.had
  /\ last.value # DefaultValue
  /\ last.n0 = last.m0
  /\ n = MIN_TABLE_SIZE
  /\ m = MIN_TABLE_SIZE

\* C3 (removal): after hash_remove(ht, k) on a table that holds k returns,
\* whether or not it shrank the table, the process is alive,
\* hash_contains(ht, k) returns 0 and hash_search(ht, k) returns NULL.
C3_Removal ==
  (last.op = "remove" /\ last.had) => status = "running" /\ NotFound(last.key)

\* C4 (no-op removal): hash_remove(ht, k) for a key the table does not hold
\* returns with n, m, the bucket array and every stored entry as they were,
\* in the empty table with m = 0 as in any other.
C4_NoOpRemoval ==
  [][(last'.op = "remove" /\ ~last'.had) =>
       /\ status' = "running"
       /\ UNCHANGED <<m, n, table, nodes, strs, arrs>>]_vars

\* C5 (one less): hash_remove(ht, k) of a stored key returns with n one
\* less, and every other stored key is still found with the value it had,
\* also when the removal shrinks the table.
C5_RemoveOne ==
  (last.op = "remove" /\ last.had) =>
    /\ status = "running"
    /\ n = last.n0 - 1
    /\ \A i \in DOMAIN last.before \ {last.key} : Returns(i, last.before[i])

\* C6 (growth): in a fresh table that sees only hash_insert calls, every
\* call returns with n <= m; once more than 16 keys are in, m > 16 and
\* each key is found with its value.
C6_Growth ==
  /\ last.op = "insert" => status = "running"
  /\ n <= m
  /\ n > MIN_TABLE_SIZE =>
       /\ m > MIN_TABLE_SIZE
       /\ \A i \in 1..n : \E v \in ValuesFor(i) : Returns(i, v)

\* C7 (floor): m is 0 or at least MIN_TABLE_SIZE in every state inserts
\* and removes reach.
C7_Floor == m = 0 \/ m >= MIN_TABLE_SIZE

\* a removal has shrunk a table of 32 slots to the floor of 16
C7_ShrunkToFloor ==
  /\ status = "running"
  /\ last.op = "remove"
  /\ last.had
  /\ last.m0 = 2 * MIN_TABLE_SIZE
  /\ m = MIN_TABLE_SIZE

\* the value hash_search_node finds under Key(i) in process state s when
\* every never written slot reads as NULL, <<>> when it finds none
ValueIn(s, i) ==
  IF hash_search_node([s EXCEPT !.junkAt = 0], Key(i)).r = NULL THEN <<>>
  ELSE s.strs[s.nodes[hash_search_node([s EXCEPT !.junkAt = 0], Key(i)).r].value].s

\* however the reads of never written slots go, resize_hash_table(ht, newm)
\* called in the current state returns with every key under the value it
\* had and no key more
Faithful(newm) ==
  \A j \in 0..resize_hash_table(Start(0, 0), newm).ur :
    /\ Running(resize_hash_table(Start(j, 0), newm))
    /\ resize_hash_table(Start(j, 0), newm).m = newm
    /\ \A i \in KeyIds :
         ValueIn(resize_hash_table(Start(j, 0), newm), i) = ValueIn(Start(0, 0), i)

\* C8 (resize fidelity): the doubling hash_insert does when n = m, and the
\* halving hash_remove does when m >= 32, keep every key with its value
\* and bring in no key.
C8_ResizeFidelity ==
  status = "running" =>
    /\ (m > 0 /\ n = m) => Faithful(2 * m)
    /\ (m >= 2 * MIN_TABLE_SIZE /\ n > 0) => Faithful(m \div 2)

\* C9 (copy out): the string hash_search returns is newly allocated and is
\* none of the strings the table owns; hash_search and hash_contains leave
\* m, n, the bucket array, the chains and the stored strings as they were;
\* what the client does with the result leaves the table as it was, and
\* what later calls do to the table leaves the result as it was.
C9_CopyOut ==
  /\ [](res # NULL => strs[res].live /\ res \notin OwnedCells)
  /\ [][/\ (last'.op = "search" /\ res' # NULL) => ~strs[res'].live
        /\ last'.op \in {"search", "contains"} =>
             /\ UNCHANGED TableMemory
             /\ \A c \in 1..MaxStrs : c # res' => strs'[c] = strs[c]
        /\ last'.op \in {"scribble", "release"} =>
             /\ UNCHANGED TableMemory
             /\ \A c \in OwnedCells : strs'[c] = strs[c]
        /\ last'.op \in {"insert", "remove", "contains"} =>
             res' = res /\ (res # NULL => strs'[res] = strs[res])]_vars

\* the client holds a search result while the key it searched for is given
\* another value
C9_ResultOutlivesValue ==
  /\ status = "running"
  /\ res # NULL
  /\ last.op = "insert"
  /\ last.had
  /\ strs[res].s # last.value
  /\ strs[res].s # Mark

\* C10 (allocation failure): a call in which an allocation fails prints a
\* diagnostic and ends the process with exit(1); it never goes on with the
\* null pointer.
C10_FatalAlloc == last.oom => status = "exited"

\* a * prehash(str) + b as line 52 computes it, modulo 2^64
Affine(str) == Add64(Mul64(W64(a), prehash(str)), W64(b))

\* C11 (bucket index range): hash(str, mm) lies in [0, mm) for every
\* string, every mm > 0 and every a, b, also when a * prehash(str) + b
\* wraps around or is negative; and the table calls hash with a positive
\* size only: the m a search sees is 0 (no call) or positive, the m an
\* insert hashes with after its growth test is positive, so is the size a
\* resize rehashes with, and every stored key has a slot in [0, m).
C11_HashRange ==
  /\ last.op = "hash" =>
       ~IsNeg64(last.ret) /\ Less64(last.ret, W64(last.m0))
  /\ status = "running" =>
       /\ m >= 0
       /\ grow_if_full(Start(0, 0)).m > 0
       /\ m > 0 => 2 * m > 0
       /\ m >= 2 * MIN_TABLE_SIZE => shrink_hash_table(Start(0, 0)).m > 0
       /\ \A i \in StoredIds : m > 0 /\ hash(Key(i), m) \in 0..(m - 1)

\* hash has been called with the largest a and b on a string for which
\* a * prehash(str) + b has wrapped around to a negative number
C11_WrappedNegative ==
  /\ last.op = "hash"
  /\ a = 2147483647
  /\ last.value = Rep(122, 13)
  /\ last.m0 = 1048576
  /\ IsNeg64(prehash(last.value))
  /\ IsNeg64(Affine(last.value))
  /\ Small64(last.ret) = 1036068

\* C12 (destroy): free_hash_table(ht), in whatever state the table is,
\* returns having freed every node still stored with its key and value,
\* and the bucket array, each once: nothing of the table stays allocated,
\* and nothing freed before (by hash_remove or by a resize) is freed again.
C12_Destroy ==
  last.op = "free" =>
    /\ status = "freed"
    /\ \A x \in 1..MaxNodes : ~nodes[x].live
    /\ \A c \in 1..MaxStrs : c # res => ~strs[c].live
    /\ \A t \in 1..MaxArrs : ~arrs[t].live

\* what a read of ht->table[i] can yield in the current state
SlotReads(i) ==
  IF arrs[table].slots[i + 1] = UNINIT THEN {NULL, JUNK}
  ELSE {arrs[table].slots[i + 1]}

RECURSIVE WalkEnds(_, _)
\* whether following next from nd reaches NULL within fuel nodes, through
\* allocated nodes only
WalkEnds(nd, fuel) ==
  IF nd = NULL THEN TRUE
  ELSE IF nd = JUNK \/ fuel = 0 THEN FALSE
  ELSE IF ~nodes[nd].live THEN FALSE
  ELSE WalkEnds(nodes[nd].next, fuel - 1)

\* C13 (termination): every call of hash_insert, hash_search,
\* hash_contains and hash_remove returns, and in every state a call can
\* start from, the walk from any bucket, whatever the read of the bucket
\* yields, reaches the end of its chain within n nodes.
C13_Termination ==
  /\ last.op \in {"insert", "search", "contains", "remove"} => status = "running"
  /\ (status = "running" /\ m > 0) =>
       \A i \in 0..(m - 1) : \A c \in SlotReads(i) : WalkEnds(c, n)

\* whether x is an allocated node whose key is Key(i)
HoldsKey(x, i) ==
  /\ x \in 1..MaxNodes
  /\ nodes[x].live
  /\ nodes[x].key # NULL
  /\ strs[nodes[x].key].s = Key(i)

\* C14 (growth trigger): a hash_insert of a key that is not stored returns
\* with m changed if and only if n = m held when it was called; m is then
\* MIN_TABLE_SIZE if it was 0 and twice what it was otherwise, and the new
\* entry is the head of bucket hash(key, m) for the new m.
C14_GrowthTrigger ==
  (last.op = "insert" /\ ~last.had) =>
    /\ status = "running"
    /\ m # last.m0 <=> last.n0 = last.m0
    /\ last.n0 = last.m0 =>
         m = IF last.m0 = 0 THEN MIN_TABLE_SIZE ELSE 2 * last.m0
    /\ HoldsKey(arrs[table].slots[hash(Key(last.key), m) + 1], last.key)

\* C15 (shrink trigger): a hash_remove of a stored key called with
\* n / 4 <= m and m >= 2 * MIN_TABLE_SIZE returns with m halved; any other
\* hash_remove (key not stored, m < 32, or n / 4 > m) leaves m as it was.
C15_ShrinkTrigger ==
  last.op = "remove" =>
    IF last.had /\ last.n0 \div 4 <= last.m0 /\ last.m0 >= 2 * MIN_TABLE_SIZE
    THEN status = "running" /\ m = last.m0 \div 2
    ELSE m = last.m0

\* C16 (explicit emptiness): every slot of a bucket array is NULL from the
\* array's allocation on until an entry is linked there: no slot holds what
\* malloc left in it, and no call reads such a slot as a wild pointer.
C16_ExplicitEmptiness ==
  /\ \A t \in 1..MaxArrs :
       arrs[t].live => \A i \in 1..Len(arrs[t].slots) : arrs[t].slots[i] # UNINIT
  /\ ~last.junk

RECURSIVE ChainIn(_, _, _)
\* the nodes met in process state s by following next from nd, at most
\* fuel of them, up to NULL or to something that is no node
ChainIn(s, nd, fuel) ==
  IF nd \notin 1..MaxNodes \/ fuel = 0 THEN <<>>
  ELSE <<nd>> \o ChainIn(s, s.nodes[nd].next, fuel - 1)

\* the chain of bucket i in process state s
Bucket(s, i) == ChainIn(s, s.arrs[s.table].slots[i + 1], MaxNodes + 1)

RECURSIVE LinkedFrom(_, _)
\* the nodes linked in the buckets i, i + 1, .. of process state s, one
\* after the other
LinkedFrom(s, i) ==
  IF s.table = NULL \/ i >= s.m THEN <<>> ELSE Bucket(s, i) \o LinkedFrom(s, i + 1)

\* the allocated nodes of process state s
LiveNodes(s) == {x \in 1..MaxNodes : s.nodes[x].live}

\* whether the sequence L of linked nodes holds each allocated node of s
\* exactly once, and nothing else
OnceIn(s, L) ==
  /\ Len(L) = Cardinality(LiveNodes(s))
  /\ {L[k] : k \in 1..Len(L)} = LiveNodes(s)

\* whether each allocated node of s is linked in exactly one place of one
\* bucket, and nothing else is linked
LinkedOnce(s) == OnceIn(s, LinkedFrom(s, 0))

\* whether s2, the process state a resize to newm ends in when called in
\* the current state, has the size newm, the same n, the same nodes with
\* the same key and value strings, and each node linked once
RelinkedIn(s2, newm) ==
  /\ Running(s2)
  /\ s2.m = newm
  /\ s2.n = n
  /\ s2.strs = strs
  /\ \A x \in 1..MaxNodes :
       /\ s2.nodes[x].live = nodes[x].live
       /\ s2.nodes[x].key = nodes[x].key
       /\ s2.nodes[x].value = nodes[x].value
  /\ LinkedOnce(s2)

\* however the reads of never written slots go
Relinked(newm) ==
  \A j \in 0..resize_hash_table(Start(0, 0), newm).ur :
    RelinkedIn(resize_hash_table(Start(j, 0), newm), newm)

\* C17 (resize relinks): the resize hash_insert does when n = m, and the
\* one hash_remove does when m >= 32, leave n as it was, allocate and free
\* no node and no string, leave every node its key and value strings, and
\* link every node in exactly one chain of the new array.
C17_ResizeRelinks ==
  status = "running" =>
    /\ (m > 0 /\ n = m) => Relinked(2 * m)
    /\ (m >= 2 * MIN_TABLE_SIZE /\ n > 0) => Relinked(m \div 2)

\* C18 (load factor): after every completed hash_insert and hash_remove,
\* whatever calls came before, the table holds no more entries than it has
\* buckets: n <= m.
C18_LoadFactor ==
  (status = "running" /\ last.op \in {"insert", "remove"}) => n <= m

\* the key string of node x in process state s
KeyOf(s, x) == IF s.nodes[x].key = NULL THEN <<>> ELSE s.strs[s.nodes[x].key].s

\* whether every node of B, the chain of bucket i in s, hashes to i
PlacedIn(s, i, B) == \A k \in 1..Len(B) : hash(KeyOf(s, B[k]), s.m) = i

\* whether every node linked in a bucket of s hashes to that bucket
Placed(s) == \A i \in 0..(s.m - 1) : PlacedIn(s, i, Bucket(s, i))

\* hash_search_node(ht, Key(i)) called in the current state
NodeRun(i, j) == hash_search_node(Start(j, 0), Key(i))

\* however the reads of never written slots go, hash_search_node(ht, Key(i))
\* returns a node that holds Key(i)
Found(i) ==
  \A j \in 0..NodeRun(i, 0).ur :
    /\ Running(NodeRun(i, j))
    /\ NodeRun(i, j).r \in LiveNodes(Start(0, 0))
    /\ KeyOf(Start(0, 0), NodeRun(i, j).r) = Key(i)

\* C19 (placement): after every completed call, every entry linked in the
\* chain of bucket i has hash(key, m) = i for the current m, and
\* hash_search_node, which looks in bucket hash(key, m) only, finds every
\* stored key.
C19_Placement ==
  (status = "running" /\ m > 0) =>
    /\ Placed(Start(0, 0))
    /\ \A i \in StoredIds : Found(i)

\* a shrink from 32 to 16 buckets has completed and left two entries in
\* one bucket, with keys that were in different buckets before
C19_Rehashed ==
  /\ status = "running"
  /\ last.op = "remove" /\ last.m0 = 2 * MIN_TABLE_SIZE /\ m = MIN_TABLE_SIZE
  /\ \E i \in 0..(m - 1) :
       /\ Len(Bucket(Start(0, 0), i)) >= 2
       /\ \E k \in 1..Len(Bucket(Start(0, 0), i)) :
            hash(KeyOf(Start(0, 0), Bucket(Start(0, 0), i)[k]), last.m0) # i

\* the keys held by the nodes of the sequence L in process state s
KeysIn(s, L) == {KeyOf(s, L[k]) : k \in 1..Len(L)}

\* the keys inserted and not removed since, given that the call last
\* recorded started from the keys of last.before
KeptIds ==
  IF last.op = "insert" THEN DOMAIN last.before \cup {last.key}
  ELSE IF last.op = "remove" THEN DOMAIN last.before \ {last.key}
  ELSE DOMAIN last.before

\* whether n counts the nodes of L, the nodes linked in the buckets of s:
\* they are n, they are the allocated nodes, each once, their keys are
\* pairwise distinct and they are the keys inserted and not removed since
CountedIn(s, L) ==
  /\ s.n = Len(L)
  /\ OnceIn(s, L)
  /\ Cardinality(KeysIn(s, L)) = Len(L)
  /\ last.op \in {"insert", "remove"} =>
       /\ KeysIn(s, L) = {Key(i) : i \in KeptIds}
       /\ s.n = Cardinality(KeptIds)

\* C20 (count): after every completed call n is the number of entries
\* linked in the bucket chains, these are all the entries allocated, their
\* keys are pairwise distinct, and they are the keys inserted and not
\* removed since.
C20_Count ==
  status = "running" => CountedIn(Start(0, 0), LinkedFrom(Start(0, 0), 0))

\* a hash_remove of a stored key has completed and left more entries than
\* buckets, so that some chain holds several of the entries counted
C20_CountedInChains ==
  /\ status = "running"
  /\ last.op = "remove" /\ last.had
  /\ n = last.n0 - 1
  /\ n > m /\ m > 0
  /\ Len(LinkedFrom(Start(0, 0), 0)) = n

=============================================================================
